---- MODULE Spec2Model ----
(***************************************************************************)
(* Model of synapse/storage/e2e_room_keys.py (EndToEndRoomKeyStore): the   *)
(* versioned encrypted-key backup store.  The two tables are bags of rows; *)
(* every store method is an operator over the database that returns the    *)
(* outcome of the call (a status, the database it leaves, the value it     *)
(* returns), and every action applies one method to inputs drawn from      *)
(* small sets.  synapse/rulecheck/domain_rule_checker.py                   *)
(* (DomainRuleChecker) is modelled beside it, with a specification of its  *)
(* own.                                                                    *)
(***************************************************************************)
EXTENDS Integers, Sequences, FiniteSets, Bags, TLC

VARIABLES versions, keys, created, txn, checker

vars == <<versions, keys, created, txn, checker>>

(***************************************************************************)
(* Bounds and input sets                                                   *)
(***************************************************************************)
\* total number of rows the two tables may hold together
MaxRows == 2

Users == {"alice", "bob"}
Rooms == {"!r1", "!r2"}
Sessions == {"s1", "s2"}
Procs == {"p1", "p2"}

\* Python None / SQL NULL, and a present value
None == <<>>
Some(x) == <<x>>

\* version identifiers as the callers pass them: strings, i.e. sequences of characters
VersionArgs == {<<"1">>, <<"2">>, <<"x">>}
OptVersionArgs == {None} \cup {Some(v) : v \in VersionArgs}
\* the methods that pass the version to the engine unparsed get decimal strings: what
\* the engine makes of another string bound to an integer column is its own matter
IntVersionArgs == {<<"1">>, <<"2">>}
OptIntVersionArgs == {None} \cup {Some(v) : v \in IntVersionArgs}

Infos == {[algorithm |-> "m.megolm_backup.v1", auth_data |-> "a1"]}
\* the partial info dict of an update: a key that is absent is None
Partials ==
  { [auth_data |-> None, hash |-> None],
    [auth_data |-> None, hash |-> Some(1)],
    [auth_data |-> Some("a1"), hash |-> Some(1)] }

\* room keys as the callers pass them
RoomKeyArgs ==
  { [first_message_index |-> 0, forwarded_count |-> 0, is_verified |-> FALSE,
     session_data |-> "d1"],
    [first_message_index |-> 1, forwarded_count |-> 0, is_verified |-> TRUE,
     session_data |-> "d2"] }

OptRooms == {None} \cup {Some(r) : r \in Rooms}
OptSessions == {None} \cup {Some(s) : s \in Sessions}

\* the batches of a bulk add: one or two (room_id, session_id, room_key) entries
BatchKey == CHOOSE k \in RoomKeyArgs : k.session_data = "d1"
BatchEntries ==
  << <<"!r1", "s1", BatchKey>>, <<"!r1", "s2", BatchKey>>,
     <<"!r2", "s1", BatchKey>>, <<"!r2", "s2", BatchKey>> >>
Batches ==
  {<<BatchEntries[i]>> : i \in DOMAIN BatchEntries}
    \cup {<<BatchEntries[p[1]], BatchEntries[p[2]]>> :
            p \in {q \in (DOMAIN BatchEntries) \X (DOMAIN BatchEntries) : q[1] <= q[2]}}

\* the selections of a multi get: a map of some rooms to {"sessions": session ids}
Selections ==
  UNION {[D -> {[sessions |-> S] : S \in SUBSET Sessions}] : D \in SUBSET Rooms}

(***************************************************************************)
(* Conversions                                                             *)
(***************************************************************************)
Digits == <<"0", "1", "2", "3", "4", "5", "6", "7", "8", "9">>

IsDigit(c) == \E i \in 1..Len(Digits) : Digits[i] = c

DigitVal(c) == (CHOOSE i \in 1..Len(Digits) : Digits[i] = c) - 1

RECURSIVE IntToStr(_)
\* str(n) for n >= 0
IntToStr(n) ==
  IF n < 10 THEN <<Digits[n + 1]>>
  ELSE IntToStr(n \div 10) \o <<Digits[(n % 10) + 1]>>

RECURSIVE DigitsVal(_)
DigitsVal(s) ==
  IF Len(s) = 0 THEN 0
  ELSE 10 * DigitsVal(SubSeq(s, 1, Len(s) - 1)) + DigitVal(s[Len(s)])

\* int(s): Some(n) for a decimal string, None where Python raises ValueError
ParseInt(s) ==
  IF Len(s) > 0 /\ \A i \in 1..Len(s) : IsDigit(s[i]) THEN Some(DigitsVal(s)) ELSE None

\* json.dumps / json.loads of an opaque payload
JsonDumps(x) == <<"json", x>>
JsonLoads(t) == t[2]

Max(S) == CHOOSE m \in S : \A x \in S : x <= m

(***************************************************************************)
(* Persistence engine primitives (synapse/storage/_base.py, SQL engine)    *)
(***************************************************************************)
\* the number of rows of table B among the matching rows S (txn.rowcount, COUNT(*))
RowCount(B, S) == BagCardinality([r \in S |-> B[r]])

\* UPDATE B SET ... WHERE: every row of S becomes upd[row]
UpdateRows(B, S, upd) == BagOfAll(LAMBDA r : IF r \in S THEN upd[r] ELSE r, B)

\* a string bound to an integer column compares as the integer it denotes;
\* a string that denotes none equals no stored value
ColumnCoerce(s) == ParseInt(s)

\* column = parameter, where the parameter may be NULL (never equal)
ColEq(col, param) == param # None /\ col = param[1]

\* the version table's key (user_id, version) is unique
VersionKeyTaken(V, u, v) == \E r \in DOMAIN V : r.user_id = u /\ r.version = v

\* mutant: the insert without the unique key
simple_insert_version_unchecked(V, values) ==
  LET v == ColumnCoerce(values.version) IN
  IF v = None THEN [status |-> "DataError", table |-> V]
  ELSE [status |-> "ok",
        table |-> V (+) SetToBag({[user_id |-> values.user_id,
                                   version |-> v[1],
                                   algorithm |-> values.algorithm,
                                   auth_data |-> values.auth_data,
                                   hash |-> None,
                                   deleted |-> FALSE]})]

\* _simple_insert_txn into e2e_room_keys_versions: columns not named take their
\* defaults (hash NULL, deleted false); a duplicate key is an IntegrityError
simple_insert_version_txn(V, values) ==
  LET v == ColumnCoerce(values.version) IN
  IF v = None THEN [status |-> "DataError", table |-> V]
  ELSE IF VersionKeyTaken(V, values.user_id, v[1])
  THEN [status |-> "IntegrityError", table |-> V]
  ELSE [status |-> "ok",
        table |-> V (+) SetToBag({[user_id |-> values.user_id,
                                   version |-> v[1],
                                   algorithm |-> values.algorithm,
                                   auth_data |-> values.auth_data,
                                   hash |-> None,
                                   deleted |-> FALSE]})]

\* _simple_select_one_txn (allow_none=False): exactly one row, else StoreError
simple_select_one_txn(B, S) ==
  LET n == RowCount(B, S) IN
  IF n = 0 THEN [status |-> "404", row |-> None]
  ELSE IF n > 1 THEN [status |-> "500", row |-> None]
  ELSE [status |-> "ok", row |-> Some(CHOOSE r \in S : TRUE)]

\* _simple_update_one_txn: UPDATE, then StoreError unless exactly one row matched
simple_update_one_txn(B, S, upd) ==
  LET n == RowCount(B, S) IN
  IF n = 0 THEN [status |-> "404", table |-> B]
  ELSE IF n > 1 THEN [status |-> "500", table |-> B]
  ELSE [status |-> "ok", table |-> UpdateRows(B, S, upd)]

\* _simple_update: UPDATE of every matching row; fails when no row matches
simple_update(B, S, upd) ==
  IF RowCount(B, S) = 0 THEN [status |-> "404", table |-> B]
  ELSE [status |-> "ok", table |-> UpdateRows(B, S, upd)]

SameKey(r, q) ==
  /\ r.user_id = q.user_id /\ r.version = q.version
  /\ r.room_id = q.room_id /\ r.session_id = q.session_id

\* _simple_insert_many into e2e_room_keys, one transaction: the key
\* (user_id, version, room_id, session_id) is unique, a collision with a stored row or
\* inside the batch is an IntegrityError and nothing of the batch is stored
simple_insert_many(K, rows) ==
  LET collide == \/ \E i \in 1..Len(rows) : \E q \in DOMAIN K : SameKey(rows[i], q)
                 \/ \E i, j \in 1..Len(rows) : i # j /\ SameKey(rows[i], rows[j])
  IN IF collide THEN [status |-> "IntegrityError", table |-> K]
     ELSE [status |-> "ok", table |-> K (+) SetToBag({rows[i] : i \in 1..Len(rows)})]

\* _simple_delete: DELETE of every matching row
simple_delete(K, S) ==
  [status |-> "ok", table |-> [r \in DOMAIN K \ S |-> K[r]]]

(***************************************************************************)
(* VersionRegistry: e2e_room_keys_versions                                 *)
(***************************************************************************)
\* mutant: the MAX of the create taken over the non-deleted rows only
fetch_max_version_live_only(db, user_id) ==
  LET s == {r.version :
              r \in {x \in DOMAIN db.versions : x.user_id = user_id /\ ~x.deleted}} IN
  <<IF s = {} THEN None ELSE Some(Max(s))>>

\* SELECT MAX(version) ... WHERE user_id=? : an aggregate always yields one row,
\* whose column is NULL when no row matches
fetch_max_version(db, user_id) ==
  LET s == {r.version : r \in {x \in DOMAIN db.versions : x.user_id = user_id}} IN
  <<IF s = {} THEN None ELSE Some(Max(s))>>

\* mutant: the current version taken over deleted rows too
fetch_max_live_version_no_filter(db, user_id) ==
  LET s == {r.version : r \in {x \in DOMAIN db.versions : x.user_id = user_id}} IN
  <<IF s = {} THEN None ELSE Some(Max(s))>>

\* mutant: MIN instead of MAX
fetch_min_live_version(db, user_id) ==
  LET s == {r.version :
              r \in {x \in DOMAIN db.versions : x.user_id = user_id /\ ~x.deleted}} IN
  <<IF s = {} THEN None ELSE Some(CHOOSE m \in s : \A x \in s : m <= x)>>

\* SELECT MAX(version) ... WHERE user_id=? AND deleted=0
fetch_max_live_version(db, user_id) ==
  LET s == {r.version :
              r \in {x \in DOMAIN db.versions : x.user_id = user_id /\ ~x.deleted}} IN
  <<IF s = {} THEN None ELSE Some(Max(s))>>

\* mutant: the current version is looked up among deleted rows too
get_current_version_any(db, user_id) ==
  LET row == fetch_max_version(db, user_id) IN
  IF row = <<>> THEN [status |-> "404", version |-> None]
  ELSE [status |-> "ok", version |-> row[1]]

\* _get_current_version: 404 when fetchone() gives no row, else the row's column
get_current_version(db, user_id) ==
  LET row == fetch_max_live_version(db, user_id) IN
  IF row = <<>> THEN [status |-> "404", version |-> None]
  ELSE [status |-> "ok", version |-> row[1]]

\* mutant: the select of the version info leaves "deleted": 0 out of its keyvalues
get_e2e_room_keys_version_info_any_row(db, user_id, version) ==
  LET cur == get_current_version(db, user_id)
      parsed == IF version = None THEN None ELSE ParseInt(version[1])
      failed == IF version = None THEN cur.status # "ok" ELSE parsed = None
      this_version == IF version = None THEN cur.version ELSE parsed
      sel == simple_select_one_txn(db.versions,
               {r \in DOMAIN db.versions :
                  r.user_id = user_id /\ ColEq(r.version, this_version)})
  IN
  IF failed THEN [status |-> "404", db |-> db, ret |-> None]
  ELSE IF sel.status # "ok" THEN [status |-> sel.status, db |-> db, ret |-> None]
  ELSE LET result == sel.row[1] IN
       [status |-> "ok", db |-> db,
        ret |-> Some([version |-> IntToStr(result.version),
                      algorithm |-> result.algorithm,
                      auth_data |-> JsonLoads(result.auth_data),
                      hash |-> IF result.hash = None \/ result.hash = Some(0)
                               THEN 0 ELSE result.hash[1]])]

\* get_e2e_room_keys_version_info
get_e2e_room_keys_version_info(db, user_id, version) ==
  LET cur == get_current_version(db, user_id)
      parsed == IF version = None THEN None ELSE ParseInt(version[1])
      failed == IF version = None THEN cur.status # "ok" ELSE parsed = None
      this_version == IF version = None THEN cur.version ELSE parsed
      sel == simple_select_one_txn(db.versions,
               {r \in DOMAIN db.versions :
                  r.user_id = user_id /\ ColEq(r.version, this_version) /\ ~r.deleted})
  IN
  IF failed THEN [status |-> "404", db |-> db, ret |-> None]
  ELSE IF sel.status # "ok" THEN [status |-> sel.status, db |-> db, ret |-> None]
  ELSE LET result == sel.row[1] IN
       [status |-> "ok", db |-> db,
        ret |-> Some([version |-> IntToStr(result.version),
                      algorithm |-> result.algorithm,
                      auth_data |-> JsonLoads(result.auth_data),
                      hash |-> IF result.hash = None \/ result.hash = Some(0)
                               THEN 0 ELSE result.hash[1]])]

\* the version id _create_e2e_room_keys_version_txn derives from the MAX row
new_version(row) ==
  LET current_version == IF row[1] = None THEN ParseInt(<<"0">>)[1] ELSE row[1][1] IN
  IntToStr(current_version + 1)

\* the insert of _create_e2e_room_keys_version_txn, given the MAX row it read
create_insert(db, user_id, info, row) ==
  LET nv == new_version(row)
      ins == simple_insert_version_txn(db.versions,
               [user_id |-> user_id, version |-> nv,
                algorithm |-> info.algorithm,
                auth_data |-> JsonDumps(info.auth_data)])
  IN [status |-> ins.status, db |-> [db EXCEPT !.versions = ins.table],
      ret |-> IF ins.status = "ok" THEN Some(nv) ELSE None]

\* create_e2e_room_keys_version: the read and the insert as one transaction
create_e2e_room_keys_version(db, user_id, info) ==
  create_insert(db, user_id, info, fetch_max_version(db, user_id))

\* mutant: the update matches on the version alone
update_e2e_room_keys_version_any_user(db, user_id, version, info) ==
  LET upd(r) ==
        LET r1 == IF info.auth_data # None
                  THEN [r EXCEPT !.auth_data = JsonDumps(info.auth_data[1])] ELSE r
        IN IF info.hash # None THEN [r1 EXCEPT !.hash = info.hash] ELSE r1
      rows == {r \in DOMAIN db.versions : ColEq(r.version, ColumnCoerce(version))}
      res == simple_update(db.versions, rows, [r \in rows |-> upd(r)])
  IN [status |-> res.status, db |-> [db EXCEPT !.versions = res.table], ret |-> None]

\* update_e2e_room_keys_version
update_e2e_room_keys_version(db, user_id, version, info) ==
  LET upd(r) ==
        LET r1 == IF info.auth_data # None
                  THEN [r EXCEPT !.auth_data = JsonDumps(info.auth_data[1])] ELSE r
        IN IF info.hash # None THEN [r1 EXCEPT !.hash = info.hash] ELSE r1
      rows == {r \in DOMAIN db.versions :
                 r.user_id = user_id /\ ColEq(r.version, ColumnCoerce(version))}
      res == simple_update(db.versions, rows, [r \in rows |-> upd(r)])
  IN [status |-> res.status, db |-> [db EXCEPT !.versions = res.table], ret |-> None]

\* mutant: the delete flips the flag instead of setting it
delete_e2e_room_keys_version_toggle(db, user_id, version) ==
  LET cur == get_current_version(db, user_id)
      this_version == IF version = None THEN cur.version ELSE ColumnCoerce(version[1])
      rows == {r \in DOMAIN db.versions :
                 r.user_id = user_id /\ ColEq(r.version, this_version)}
      res == simple_update_one_txn(db.versions, rows, [r \in rows |-> [r EXCEPT !.deleted = ~r.deleted]])
  IN
  IF version = None /\ cur.status # "ok"
  THEN [status |-> cur.status, db |-> db, ret |-> None]
  ELSE [status |-> res.status, db |-> [db EXCEPT !.versions = res.table], ret |-> None]

\* mutant: the delete also drops the version's key rows
delete_e2e_room_keys_version_cascade(db, user_id, version) ==
  LET cur == get_current_version(db, user_id)
      this_version == IF version = None THEN cur.version ELSE ColumnCoerce(version[1])
      rows == {r \in DOMAIN db.versions :
                 r.user_id = user_id /\ ColEq(r.version, this_version)}
      res == simple_update_one_txn(db.versions, rows, [r \in rows |-> [r EXCEPT !.deleted = TRUE]])
      left == [r \in {x \in DOMAIN db.keys :
                        ~(x.user_id = user_id /\ ColEq(x.version, this_version))}
               |-> db.keys[r]]
  IN
  IF version = None /\ cur.status # "ok"
  THEN [status |-> cur.status, db |-> db, ret |-> None]
  ELSE IF res.status # "ok" THEN [status |-> res.status, db |-> db, ret |-> None]
  ELSE [status |-> "ok", db |-> [versions |-> res.table, keys |-> left], ret |-> None]

\* delete_e2e_room_keys_version
delete_e2e_room_keys_version(db, user_id, version) ==
  LET cur == get_current_version(db, user_id)
      this_version == IF version = None THEN cur.version ELSE ColumnCoerce(version[1])
      rows == {r \in DOMAIN db.versions :
                 r.user_id = user_id /\ ColEq(r.version, this_version)}
      res == simple_update_one_txn(db.versions, rows, [r \in rows |-> [r EXCEPT !.deleted = TRUE]])
  IN
  IF version = None /\ cur.status # "ok"
  THEN [status |-> cur.status, db |-> db, ret |-> None]
  ELSE [status |-> res.status, db |-> [db EXCEPT !.versions = res.table], ret |-> None]

(***************************************************************************)
(* KeyStore and BatchFetcher: e2e_room_keys                                *)
(***************************************************************************)
\* Python truthiness of an optional string argument
Truthy(opt) == opt # None /\ opt[1] # ""

\* the e2e_room_keys row built from one (room_id, session_id, room_key) entry
key_row(user_id, v, room_id, session_id, room_key) ==
  [user_id |-> user_id, version |-> v, room_id |-> room_id, session_id |-> session_id,
   first_message_index |-> room_key.first_message_index,
   forwarded_count |-> room_key.forwarded_count,
   is_verified |-> room_key.is_verified,
   session_data |-> JsonDumps(room_key.session_data)]

\* the room key dict built from one selected row
row_key(r) ==
  [first_message_index |-> r.first_message_index,
   forwarded_count |-> r.forwarded_count,
   is_verified |-> r.is_verified,
   session_data |-> JsonLoads(r.session_data)]

\* mutant: an upsert, the row is inserted when none matches
update_e2e_room_key_upsert(db, user_id, version, room_id, session_id, room_key) ==
  LET rows == {r \in DOMAIN db.keys :
                 /\ r.user_id = user_id
                 /\ ColEq(r.version, ColumnCoerce(version))
                 /\ r.room_id = room_id /\ r.session_id = session_id}
      res == simple_update_one_txn(db.keys, rows,
               [r \in rows |->
                  key_row(r.user_id, r.version, r.room_id, r.session_id, room_key)])
      ins == simple_insert_many(db.keys,
               <<key_row(user_id, ColumnCoerce(version)[1], room_id, session_id,
                         room_key)>>)
  IN IF res.status = "404"
     THEN [status |-> ins.status, db |-> [db EXCEPT !.keys = ins.table], ret |-> None]
     ELSE [status |-> res.status, db |-> [db EXCEPT !.keys = res.table], ret |-> None]

\* update_e2e_room_key
update_e2e_room_key(db, user_id, version, room_id, session_id, room_key) ==
  LET rows == {r \in DOMAIN db.keys :
                 /\ r.user_id = user_id
                 /\ ColEq(r.version, ColumnCoerce(version))
                 /\ r.room_id = room_id /\ r.session_id = session_id}
      res == simple_update_one_txn(db.keys, rows,
               [r \in rows |->
                  key_row(r.user_id, r.version, r.room_id, r.session_id, room_key)])
  IN [status |-> res.status, db |-> [db EXCEPT !.keys = res.table], ret |-> None]

\* mutant: the batch is inserted entry by entry, each in its own transaction, so the
\* entries before the first collision stay
add_e2e_room_keys_entrywise(db, user_id, version, room_keys) ==
  LET v == ColumnCoerce(version)
      first == simple_insert_many(db.keys,
                 <<key_row(user_id, v[1], room_keys[1][1], room_keys[1][2],
                           room_keys[1][3])>>)
      rest == simple_insert_many(first.table,
                [i \in 1..(Len(room_keys) - 1) |->
                   key_row(user_id, v[1], room_keys[i + 1][1], room_keys[i + 1][2],
                           room_keys[i + 1][3])])
  IN IF v = None THEN [status |-> "DataError", db |-> db, ret |-> None]
     ELSE IF first.status # "ok"
     THEN [status |-> first.status, db |-> db, ret |-> None]
     ELSE [status |-> rest.status, db |-> [db EXCEPT !.keys = rest.table], ret |-> None]

\* mutant: the bulk add requires a non-deleted row of (user_id, version)
add_e2e_room_keys_live_version_only(db, user_id, version, room_keys) ==
  LET v == ColumnCoerce(version)
      res == simple_insert_many(db.keys,
               [i \in 1..Len(room_keys) |->
                  key_row(user_id, v[1], room_keys[i][1], room_keys[i][2], room_keys[i][3])])
  IN IF v = None THEN [status |-> "DataError", db |-> db, ret |-> None]
     ELSE IF ~\E r \in DOMAIN db.versions :
                r.user_id = user_id /\ r.version = v[1] /\ ~r.deleted
     THEN [status |-> "404", db |-> db, ret |-> None]
     ELSE [status |-> res.status, db |-> [db EXCEPT !.keys = res.table], ret |-> None]

\* add_e2e_room_keys
add_e2e_room_keys(db, user_id, version, room_keys) ==
  LET v == ColumnCoerce(version)
      res == simple_insert_many(db.keys,
               [i \in 1..Len(room_keys) |->
                  key_row(user_id, v[1], room_keys[i][1], room_keys[i][2], room_keys[i][3])])
  IN IF v = None THEN [status |-> "DataError", db |-> db, ret |-> None]
     ELSE [status |-> res.status, db |-> [db EXCEPT !.keys = res.table], ret |-> None]

\* the room_id -> session_id -> room_key grouping of selected rows
group_rows(rows) ==
  [room \in {r.room_id : r \in rows} |->
     [sid \in {r.session_id : r \in {x \in rows : x.room_id = room}} |->
        row_key(CHOOSE r \in rows : r.room_id = room /\ r.session_id = sid)]]

\* mutant: the session_id is never added to the keyvalues
key_filter_no_session(r, user_id, v, room_id, session_id) ==
  /\ r.user_id = user_id
  /\ r.version = v
  /\ Truthy(room_id) => r.room_id = room_id[1]

\* mutant: the session_id test is not nested in the room_id test
key_filter_flat(r, user_id, v, room_id, session_id) ==
  /\ r.user_id = user_id
  /\ r.version = v
  /\ Truthy(room_id) => r.room_id = room_id[1]
  /\ Truthy(session_id) => r.session_id = session_id[1]

\* the keyvalues filter shared by get_e2e_room_keys and delete_e2e_room_keys
key_filter(r, user_id, v, room_id, session_id) ==
  /\ r.user_id = user_id
  /\ r.version = v
  /\ Truthy(room_id) =>
       /\ r.room_id = room_id[1]
       /\ Truthy(session_id) => r.session_id = session_id[1]

\* mutant: int(version) outside the try, the ValueError reaches the caller
get_e2e_room_keys_strict(db, user_id, version, room_id, session_id) ==
  LET v == ParseInt(version)
      rows == {r \in DOMAIN db.keys : key_filter(r, user_id, v[1], room_id, session_id)}
      g == group_rows(rows)
  IN
  IF v = None THEN [status |-> "ValueError", db |-> db, ret |-> [rooms |-> <<>>]]
  ELSE [status |-> "ok", db |-> db,
        ret |-> [rooms |-> [room \in DOMAIN g |-> [sessions |-> g[room]]]]]

\* get_e2e_room_keys: {"rooms": {room_id: {"sessions": {session_id: room_key}}}}
get_e2e_room_keys(db, user_id, version, room_id, session_id) ==
  LET v == ParseInt(version)
      rows == {r \in DOMAIN db.keys : key_filter(r, user_id, v[1], room_id, session_id)}
      g == group_rows(rows)
  IN
  IF v = None THEN [status |-> "ok", db |-> db, ret |-> [rooms |-> <<>>]]
  ELSE [status |-> "ok", db |-> db,
        ret |-> [rooms |-> [room \in DOMAIN g |-> [sessions |-> g[room]]]]]

\* the (room_id, sessions) pairs that become where_clauses
where_clauses(room_keys) ==
  {<<room_id, room_keys[room_id].sessions>> :
     room_id \in {x \in DOMAIN room_keys : room_keys[x].sessions # {}}}

\* mutant: a clause selects the whole room
get_e2e_room_keys_multi_room_only(db, user_id, version, room_keys) ==
  LET clauses == where_clauses(room_keys)
      rows == {r \in DOMAIN db.keys :
                 /\ r.user_id = user_id
                 /\ ColEq(r.version, ColumnCoerce(version))
                 /\ \E c \in clauses : r.room_id = c[1]}
  IN
  IF Cardinality(DOMAIN room_keys) = 0
  THEN [status |-> "ok", db |-> db, executed |-> FALSE, ret |-> <<>>]
  ELSE IF clauses = {}
  THEN [status |-> "ProgrammingError", db |-> db, executed |-> TRUE, ret |-> <<>>]
  ELSE [status |-> "ok", db |-> db, executed |-> TRUE, ret |-> group_rows(rows)]

\* _get_e2e_room_keys_multi_txn; "executed" tells whether txn.execute was called
get_e2e_room_keys_multi(db, user_id, version, room_keys) ==
  LET clauses == where_clauses(room_keys)
      rows == {r \in DOMAIN db.keys :
                 /\ r.user_id = user_id
                 /\ ColEq(r.version, ColumnCoerce(version))
                 /\ \E c \in clauses : r.room_id = c[1] /\ r.session_id \in c[2]}
  IN
  IF Cardinality(DOMAIN room_keys) = 0
  THEN [status |-> "ok", db |-> db, executed |-> FALSE, ret |-> <<>>]
  ELSE IF clauses = {}
  THEN \* WHERE user_id = ? AND version = ? AND () is not SQL: execute raises
       [status |-> "ProgrammingError", db |-> db, executed |-> TRUE, ret |-> <<>>]
  ELSE [status |-> "ok", db |-> db, executed |-> TRUE, ret |-> group_rows(rows)]

\* mutant: the keyvalues of the count leave out the version
count_e2e_room_keys_all_versions(db, user_id, version) ==
  [status |-> "ok", db |-> db,
   ret |-> RowCount(db.keys, {r \in DOMAIN db.keys : r.user_id = user_id})]

\* count_e2e_room_keys
count_e2e_room_keys(db, user_id, version) ==
  [status |-> "ok", db |-> db,
   ret |-> RowCount(db.keys,
                    {r \in DOMAIN db.keys :
                       r.user_id = user_id /\ ColEq(r.version, ColumnCoerce(version))})]

\* mutant: the keyvalues of the delete leave out the user_id
delete_e2e_room_keys_any_user(db, user_id, version, room_id, session_id) ==
  LET v == ParseInt(version)
      res == simple_delete(db.keys,
               {r \in DOMAIN db.keys :
                  \E w \in Users : key_filter(r, w, v[1], room_id, session_id)})
  IN IF v = None THEN [status |-> "ValueError", db |-> db, ret |-> None]
     ELSE [status |-> res.status, db |-> [db EXCEPT !.keys = res.table], ret |-> None]

\* mutant: the ValueError of int(version) is caught as in get_e2e_room_keys
delete_e2e_room_keys_lenient(db, user_id, version, room_id, session_id) ==
  LET v == ParseInt(version)
      res == simple_delete(db.keys,
               {r \in DOMAIN db.keys : key_filter(r, user_id, v[1], room_id, session_id)})
  IN IF v = None THEN [status |-> "ok", db |-> db, ret |-> None]
     ELSE [status |-> res.status, db |-> [db EXCEPT !.keys = res.table], ret |-> None]

\* delete_e2e_room_keys
delete_e2e_room_keys(db, user_id, version, room_id, session_id) ==
  LET v == ParseInt(version)
      res == simple_delete(db.keys,
               {r \in DOMAIN db.keys : key_filter(r, user_id, v[1], room_id, session_id)})
  IN IF v = None THEN [status |-> "ValueError", db |-> db, ret |-> None]
     ELSE [status |-> res.status, db |-> [db EXCEPT !.keys = res.table], ret |-> None]

(***************************************************************************)
(* synapse/rulecheck/domain_rule_checker.py: DomainRuleChecker             *)
(***************************************************************************)
\* domains and user ids, as strings: sequences of characters
RuleDomains == {<<"a">>, <<"b">>}
Mxids == {<<"@", "u", ":", "a">>, <<"@", "v", ":", "a">>, <<"@", "w", ":", "b">>,
          <<"@", "z">>}
InviteLists == {<<>>} \cup {<<m>> : m \in Mxids} \cup {<<m, n>> : m \in Mxids, n \in Mxids}
RuleRoom == "!r1"

\* domain_mapping dicts: a domain that is no key of the dict maps to None
DomainMappings ==
  { [d \in RuleDomains |-> None],
    [d \in RuleDomains |-> IF d = <<"a">> THEN Some({<<"a">>}) ELSE None],
    [d \in RuleDomains |-> IF d = <<"a">> THEN Some({<<"a">>, <<"b">>})
                           ELSE Some({<<"b">>})] }

\* config dicts: a key that is absent is None; domain_mapping may be null
RawConfigs ==
  [domain_mapping : {None} \cup {Some(m) : m \in DomainMappings},
   default : {None, Some(TRUE), Some(FALSE)},
   can_only_join_rooms_with_invite : {None, Some(TRUE)},
   can_only_create_one_to_one_rooms : {None, Some(TRUE)},
   can_only_invite_during_room_creation : {None, Some(TRUE)}]

\* parse_config: ConfigError unless "default" is in the config
parse_config(config) ==
  IF config.default # None THEN [status |-> "ok", ret |-> Some(config)]
  ELSE [status |-> "ConfigError", ret |-> None]

\* __init__: domain_mapping or {}, default, and the three flags with default False
DomainRuleChecker(config) ==
  [domain_mapping |->
     IF config.domain_mapping = None
        \/ \A d \in RuleDomains : config.domain_mapping[1][d] = None
     THEN [d \in RuleDomains |-> None] ELSE config.domain_mapping[1],
   default |-> config.default[1],
   can_only_join_rooms_with_invite |->
     IF config.can_only_join_rooms_with_invite = None THEN FALSE
     ELSE config.can_only_join_rooms_with_invite[1],
   can_only_create_one_to_one_rooms |->
     IF config.can_only_create_one_to_one_rooms = None THEN FALSE
     ELSE config.can_only_create_one_to_one_rooms[1],
   can_only_invite_during_room_creation |->
     IF config.can_only_invite_during_room_creation = None THEN FALSE
     ELSE config.can_only_invite_during_room_creation[1]]

\* str.find: the 0-based index of the first occurrence of c in s, -1 when there is none
find(s, c) ==
  IF \E i \in 1..Len(s) : s[i] = c
  THEN (CHOOSE i \in 1..Len(s) : s[i] = c /\ \A j \in 1..(i - 1) : s[j] # c) - 1
  ELSE -1

\* _get_domain_from_id: mxid[idx + 1:], None where it raises Exception("Invalid ID")
get_domain_from_id(mxid) ==
  LET idx == find(mxid, ":") IN
  IF idx = -1 THEN None ELSE Some(SubSeq(mxid, idx + 2, Len(mxid)))

\* "inviter_domain in self.domain_mapping"
InMapping(self, domain) ==
  domain \in DOMAIN self.domain_mapping /\ self.domain_mapping[domain] # None

check_event_for_spam(self) == [status |-> "ok", ret |-> FALSE]

user_may_invite(self, inviter_userid, invitee_userid, room_id, new_room) ==
  LET inviter_domain == get_domain_from_id(inviter_userid)
      invitee_domain == get_domain_from_id(invitee_userid)
  IN
  IF self.can_only_invite_during_room_creation /\ ~new_room
  THEN [status |-> "ok", ret |-> FALSE]
  ELSE IF inviter_domain = None \/ invitee_domain = None
  THEN [status |-> "Exception", ret |-> FALSE]
  ELSE IF ~InMapping(self, inviter_domain[1])
  THEN [status |-> "ok", ret |-> self.default]
  ELSE [status |-> "ok",
        ret |-> invitee_domain[1] \in self.domain_mapping[inviter_domain[1]][1]]

user_may_create_room(self, userid, invite_list, cloning) ==
  IF cloning THEN [status |-> "ok", ret |-> TRUE]
  ELSE IF self.can_only_create_one_to_one_rooms /\ Len(invite_list) # 1
  THEN [status |-> "ok", ret |-> FALSE]
  ELSE [status |-> "ok", ret |-> TRUE]

user_may_create_room_alias(self) == [status |-> "ok", ret |-> TRUE]

user_may_publish_room(self) == [status |-> "ok", ret |-> TRUE]

user_may_join_room(self, userid, room_id, is_invited) ==
  IF self.can_only_join_rooms_with_invite /\ ~is_invited
  THEN [status |-> "ok", ret |-> FALSE]
  ELSE [status |-> "ok", ret |-> TRUE]

(***************************************************************************)
(* State machine: every call is one transaction on the shared database     *)
(***************************************************************************)
DB == [versions |-> versions, keys |-> keys]

Rows(db) == BagCardinality(db.versions) + BagCardinality(db.keys)

IdleTxn == [pc |-> "idle", user_id |-> "", info |-> CHOOSE i \in Infos : TRUE,
            row |-> <<None>>]

\* the configuration of the rule checker that runs beside the store
StoreSideConfig ==
  [domain_mapping |-> None, default |-> Some(FALSE),
   can_only_join_rooms_with_invite |-> None,
   can_only_create_one_to_one_rooms |-> None,
   can_only_invite_during_room_creation |-> None]

Init ==
  /\ versions = EmptyBag
  /\ keys = EmptyBag
  /\ created = [u \in Users |-> <<>>]
  /\ txn = [p \in Procs |-> IdleTxn]
  /\ checker = [self |-> DomainRuleChecker(StoreSideConfig), last |-> None]

\* the database a call leaves; the tables hold at most MaxRows rows
Commit(res) ==
  /\ Rows(res.db) <= MaxRows
  /\ versions' = res.db.versions
  /\ keys' = res.db.keys

CreateVersion(u, info) ==
  LET res == create_e2e_room_keys_version(DB, u, info) IN
  /\ Commit(res)
  /\ created' = IF res.status = "ok"
                THEN [created EXCEPT ![u] = Append(@, res.ret[1])] ELSE created
  /\ UNCHANGED <<txn, checker>>

GetVersionInfo(u, v) ==
  /\ get_e2e_room_keys_version_info(DB, u, v).status \in {"ok", "404"}
  /\ UNCHANGED vars

UpdateVersionInfo(u, v, info) ==
  /\ Commit(update_e2e_room_keys_version(DB, u, v, info))
  /\ UNCHANGED <<created, txn, checker>>

DeleteVersion(u, v) ==
  /\ Commit(delete_e2e_room_keys_version(DB, u, v))
  /\ UNCHANGED <<created, txn, checker>>

UpdateKey(u, v, room, sid, rk) ==
  /\ Commit(update_e2e_room_key(DB, u, v, room, sid, rk))
  /\ UNCHANGED <<created, txn, checker>>

BulkAddKeys(u, v, batch) ==
  /\ Commit(add_e2e_room_keys(DB, u, v, batch))
  /\ UNCHANGED <<created, txn, checker>>

GetKeys(u, v, room, sid) ==
  /\ get_e2e_room_keys(DB, u, v, room, sid).status = "ok"
  /\ UNCHANGED vars

GetKeysMulti(u, v, sel) ==
  /\ get_e2e_room_keys_multi(DB, u, v, sel).status \in {"ok", "ProgrammingError"}
  /\ UNCHANGED vars

CountKeys(u, v) ==
  /\ count_e2e_room_keys(DB, u, v).status = "ok"
  /\ UNCHANGED vars

DeleteKeys(u, v, room, sid) ==
  /\ Commit(delete_e2e_room_keys(DB, u, v, room, sid))
  /\ UNCHANGED <<created, txn, checker>>

Next ==
  \/ \E u \in Users, info \in Infos : CreateVersion(u, info)
  \/ \E u \in Users, v \in OptVersionArgs : GetVersionInfo(u, v)
  \/ \E u \in Users, v \in IntVersionArgs, info \in Partials : UpdateVersionInfo(u, v, info)
  \/ \E u \in Users, v \in OptIntVersionArgs : DeleteVersion(u, v)
  \/ \E u \in Users, v \in IntVersionArgs, room \in Rooms, sid \in Sessions,
       rk \in RoomKeyArgs :
       UpdateKey(u, v, room, sid, rk)
  \/ \E u \in Users, v \in IntVersionArgs, batch \in Batches : BulkAddKeys(u, v, batch)
  \/ \E u \in Users, v \in VersionArgs, room \in OptRooms, sid \in OptSessions :
       GetKeys(u, v, room, sid)
  \/ \E u \in Users, v \in IntVersionArgs, sel \in Selections : GetKeysMulti(u, v, sel)
  \/ \E u \in Users, v \in IntVersionArgs : CountKeys(u, v)
  \/ \E u \in Users, v \in VersionArgs, room \in OptRooms, sid \in OptSessions :
       DeleteKeys(u, v, room, sid)

Spec == Init /\ [][Next]_vars

(***************************************************************************)
(* Concurrent creators: runInteraction runs each transaction on its own    *)
(* connection, so the SELECT MAX and the INSERT of two                     *)
(* create_e2e_room_keys_version calls interleave                           *)
(***************************************************************************)
InFlight == Cardinality({p \in Procs : txn[p].pc = "read"})

\* the SELECT MAX(version) of _create_e2e_room_keys_version_txn
BeginCreate(p, u, info) ==
  /\ txn[p].pc = "idle"
  /\ Rows(DB) + InFlight < MaxRows
  /\ txn' = [txn EXCEPT ![p] = [pc |-> "read", user_id |-> u, info |-> info,
                                row |-> fetch_max_version(DB, u)]]
  /\ UNCHANGED <<versions, keys, created, checker>>

\* its INSERT and the end of the transaction
FinishCreate(p) ==
  /\ txn[p].pc = "read"
  /\ LET res == create_insert(DB, txn[p].user_id, txn[p].info, txn[p].row) IN
     /\ Commit(res)
     /\ created' = IF res.status = "ok"
                   THEN [created EXCEPT ![txn[p].user_id] = Append(@, res.ret[1])]
                   ELSE created
  /\ txn' = [txn EXCEPT ![p] = IdleTxn]
  /\ UNCHANGED checker

NextConc ==
  \/ \E p \in Procs, u \in Users, info \in Infos : BeginCreate(p, u, info)
  \/ \E p \in Procs : FinishCreate(p)
  \/ \E u \in Users, v \in IntVersionArgs, info \in Partials : UpdateVersionInfo(u, v, info)
  \/ \E u \in Users, v \in OptIntVersionArgs : DeleteVersion(u, v)

SpecConc == Init /\ [][NextConc]_vars

(***************************************************************************)
(* The rule checker: one instance built from a parsed config; every call   *)
(* is recorded with its arguments and its verdict                          *)
(***************************************************************************)
InitRules ==
  /\ versions = EmptyBag
  /\ keys = EmptyBag
  /\ created = [u \in Users |-> <<>>]
  /\ txn = [p \in Procs |-> IdleTxn]
  /\ \E config \in RawConfigs :
       /\ parse_config(config).status = "ok"
       /\ checker = [self |-> DomainRuleChecker(parse_config(config).ret[1]),
                     last |-> None]

CheckEventForSpam ==
  /\ checker' = [checker EXCEPT !.last =
                   Some([op |-> "check_event_for_spam", args |-> <<>>,
                         res |-> check_event_for_spam(checker.self)])]
  /\ UNCHANGED <<versions, keys, created, txn>>

UserMayInvite(inviter, invitee, new_room) ==
  /\ checker' = [checker EXCEPT !.last =
                   Some([op |-> "user_may_invite",
                         args |-> <<inviter, invitee, new_room>>,
                         res |-> user_may_invite(checker.self, inviter, invitee,
                                                 RuleRoom, new_room)])]
  /\ UNCHANGED <<versions, keys, created, txn>>

UserMayCreateRoom(userid, invite_list, cloning) ==
  /\ checker' = [checker EXCEPT !.last =
                   Some([op |-> "user_may_create_room",
                         args |-> <<userid, invite_list, cloning>>,
                         res |-> user_may_create_room(checker.self, userid,
                                                      invite_list, cloning)])]
  /\ UNCHANGED <<versions, keys, created, txn>>

UserMayCreateRoomAlias ==
  /\ checker' = [checker EXCEPT !.last =
                   Some([op |-> "user_may_create_room_alias", args |-> <<>>,
                         res |-> user_may_create_room_alias(checker.self)])]
  /\ UNCHANGED <<versions, keys, created, txn>>

UserMayPublishRoom ==
  /\ checker' = [checker EXCEPT !.last =
                   Some([op |-> "user_may_publish_room", args |-> <<>>,
                         res |-> user_may_publish_room(checker.self)])]
  /\ UNCHANGED <<versions, keys, created, txn>>

UserMayJoinRoom(userid, is_invited) ==
  /\ checker' = [checker EXCEPT !.last =
                   Some([op |-> "user_may_join_room", args |-> <<userid, is_invited>>,
                         res |-> user_may_join_room(checker.self, userid, RuleRoom,
                                                    is_invited)])]
  /\ UNCHANGED <<versions, keys, created, txn>>

NextRules ==
  \/ CheckEventForSpam
  \/ \E inviter \in Mxids, invitee \in Mxids, new_room \in BOOLEAN :
       UserMayInvite(inviter, invitee, new_room)
  \/ \E userid \in Mxids, invite_list \in InviteLists, cloning \in BOOLEAN :
       UserMayCreateRoom(userid, invite_list, cloning)
  \/ UserMayCreateRoomAlias
  \/ UserMayPublishRoom
  \/ \E userid \in Mxids, is_invited \in BOOLEAN : UserMayJoinRoom(userid, is_invited)

SpecRules == InitRules /\ [][NextRules]_vars

(***************************************************************************)
(* Properties                                                              *)
(***************************************************************************)
UserRows(u) == {r \in DOMAIN versions : r.user_id = u}

LiveRows(u) == {r \in UserRows(u) : ~r.deleted}

\* C1: the k-th createVersion of a user returns the decimal string of k: the numbers
\* returned so far are 1..k, they are the numbers of the user's rows (deleted or
\* not), and the next call succeeds and returns k + 1
C1_CreateCountsUp ==
  \A u \in Users :
    /\ \A k \in 1..Len(created[u]) : ParseInt(created[u][k]) = Some(k)
    /\ Len(created[u]) >= 1 => created[u][1] = <<"1">>
    /\ {r.version : r \in UserRows(u)} = 1..Len(created[u])
    /\ \A info \in Infos :
         LET res == create_e2e_room_keys_version(DB, u, info) IN
         /\ res.status = "ok"
         /\ ParseInt(res.ret[1]) = Some(Len(created[u]) + 1)

\* a second version created for a user whose first version is soft-deleted
C1_Witness ==
  \E u \in Users :
    /\ Len(created[u]) = 2
    /\ \E r \in UserRows(u) : r.version = 1 /\ r.deleted

\* C2: with the SELECT MAX and the INSERT of concurrent creators interleaved, no two
\* calls return the same version to a user and no two rows share (user_id, version)
C2_NoDuplicateVersion ==
  /\ \A r \in DOMAIN versions :
       /\ versions[r] = 1
       /\ \A q \in DOMAIN versions :
            (q.user_id = r.user_id /\ q.version = r.version) => q = r
  /\ \A u \in Users : \A i, j \in 1..Len(created[u]) :
       i # j => created[u][i] # created[u][j]

\* a creator that has read its MAX and is about to insert a number already returned
\* to another creator of the same user
C2_Witness ==
  \E p \in Procs :
    /\ txn[p].pc = "read"
    /\ \E k \in 1..Len(created[txn[p].user_id]) :
         created[txn[p].user_id][k] = new_version(txn[p].row)

\* C3: getVersionInfo without a version returns the metadata of the user's
\* highest-numbered non-deleted row, and fails with 404 when the user has none
C3_CurrentIsHighestLive ==
  \A u \in Users :
    LET res == get_e2e_room_keys_version_info(DB, u, None)
        live == LiveRows(u)
    IN IF live = {} THEN res.status = "404" /\ res.ret = None
       ELSE /\ res.status = "ok"
            /\ \E r \in live :
                 /\ \A q \in live : q.version <= r.version
                 /\ ParseInt(res.ret[1].version) = Some(r.version)
                 /\ res.ret[1].algorithm = r.algorithm
                 /\ JsonDumps(res.ret[1].auth_data) = r.auth_data
                 /\ res.ret[1].hash = (IF r.hash = None THEN 0 ELSE r.hash[1])

\* the current version was soft-deleted and a lower one is now the current one
C3_Witness ==
  \E u \in Users : \E r \in LiveRows(u) : \E q \in UserRows(u) :
    /\ q.deleted /\ q.version > r.version
    /\ get_e2e_room_keys_version_info(DB, u, None).status = "ok"

\* C4 as stated: a user has at most one row with deleted = false
C4_AtMostOneLive == \A u \in Users : Cardinality(LiveRows(u)) <= 1

\* C4 as amended: a user may have several rows with deleted = false; they carry
\* distinct version numbers, and the current version is the largest of them, the
\* number of exactly one non-deleted row
C4_OneCurrentRow ==
  \A u \in Users :
    LET cur == get_current_version(DB, u).version IN
    IF LiveRows(u) = {} THEN cur = None
    ELSE /\ cur # None
         /\ \A r \in LiveRows(u) : r.version <= cur[1]
         /\ RowCount(versions, {r \in LiveRows(u) : r.version = cur[1]}) = 1

\* two versions of one user, neither deleted
C4_Witness == \E u \in Users : Cardinality(LiveRows(u)) >= 2

\* C5: no step removes a version row, and no step sets the deleted flag of a row back
\* to false
C5_DeletedIsTerminal ==
  [][/\ BagCardinality(versions') >= BagCardinality(versions)
     /\ \A r \in DOMAIN versions :
          /\ \E q \in DOMAIN versions' :
               q.user_id = r.user_id /\ q.version = r.version
          /\ r.deleted =>
               \A q \in DOMAIN versions' :
                 (q.user_id = r.user_id /\ q.version = r.version) => q.deleted]_vars

\* a soft-deleted version followed by a newer, non-deleted version of the same user
C5_Witness ==
  \E u \in Users : \E r \in UserRows(u) : \E q \in LiveRows(u) :
    r.deleted /\ q.version > r.version

\* C6: a step that changes the version table (createVersion, updateVersionInfo,
\* deleteVersion) leaves the key table as it is, and getKeys returns the same
\* records after it as before
C6_VersionStepsKeepKeys ==
  [][versions' # versions =>
       /\ keys' = keys
       /\ \A u \in Users, v \in VersionArgs, room \in OptRooms, sid \in OptSessions :
            get_e2e_room_keys(DB', u, v, room, sid).ret
              = get_e2e_room_keys(DB, u, v, room, sid).ret]_vars

\* a key stored under a version that is now soft-deleted, still returned by getKeys
C6_Witness ==
  \E k \in DOMAIN keys : \E r \in UserRows(k.user_id) :
    /\ r.version = k.version /\ r.deleted
    /\ LET got == get_e2e_room_keys(DB, k.user_id, IntToStr(k.version), None, None).ret
       IN /\ k.room_id \in DOMAIN got.rooms
          /\ k.session_id \in DOMAIN got.rooms[k.room_id].sessions
          /\ got.rooms[k.room_id].sessions[k.session_id] = row_key(k)

C8_NoClauseNoQuery ==
  \A u \in Users, v \in IntVersionArgs, sel \in Selections :
    where_clauses(sel) = {} =>
      LET res == get_e2e_room_keys_multi(DB, u, v, sel) IN
      res.status = "ok" /\ res.ret = <<>> /\ ~res.executed

\* C9: for a selection with a non-empty session set, getKeysMulti returns exactly the
\* stored records of (user, version) whose room and session the selection names
C9_MultiReturnsSelected ==
  \A u \in Users, v \in IntVersionArgs, sel \in Selections :
    where_clauses(sel) # {} =>
      LET res == get_e2e_room_keys_multi(DB, u, v, sel) IN
      /\ res.status = "ok"
      /\ DOMAIN res.ret \subseteq Rooms
      /\ \A room \in DOMAIN res.ret :
           DOMAIN res.ret[room] # {} /\ DOMAIN res.ret[room] \subseteq Sessions
      /\ \A room \in Rooms, sid \in Sessions :
           LET stored == {r \in DOMAIN keys :
                            /\ r.user_id = u /\ ParseInt(v) = Some(r.version)
                            /\ r.room_id = room /\ r.session_id = sid}
               named == room \in DOMAIN sel /\ sid \in sel[room].sessions
               present == room \in DOMAIN res.ret /\ sid \in DOMAIN res.ret[room]
           IN /\ present <=> (named /\ stored # {})
              /\ present =>
                   \A r \in stored :
                     /\ res.ret[room][sid].first_message_index = r.first_message_index
                     /\ res.ret[room][sid].forwarded_count = r.forwarded_count
                     /\ res.ret[room][sid].is_verified = r.is_verified
                     /\ JsonDumps(res.ret[room][sid].session_data) = r.session_data

\* two stored keys of one backup in different rooms; a selection that names every
\* session of the first room and no session of the second returns the first only
C9_Witness ==
  \E k \in DOMAIN keys, m \in DOMAIN keys :
    /\ k.user_id = m.user_id /\ k.version = m.version /\ k.room_id # m.room_id
    /\ LET sel == [room \in {k.room_id, m.room_id} |->
                     [sessions |-> IF room = k.room_id THEN Sessions ELSE {}]]
           res == get_e2e_room_keys_multi(DB, k.user_id, IntToStr(k.version), sel)
       IN res.status = "ok" /\ DOMAIN res.ret = {k.room_id}

\* C10: the three filter levels of getKeys agree: the result for a room with data is
\* that room's entry of the unfiltered result, and the result for a room and one of
\* its sessions is that single record
C10_FilterLevelsAgree ==
  \A u \in Users, v \in VersionArgs, room \in Rooms :
    LET all == get_e2e_room_keys(DB, u, v, None, None).ret.rooms
        byRoom == get_e2e_room_keys(DB, u, v, Some(room), None).ret.rooms
    IN /\ DOMAIN byRoom \subseteq DOMAIN all
       /\ room \in DOMAIN all =>
            /\ DOMAIN byRoom = {room}
            /\ byRoom[room] = all[room]
            /\ \A sid \in DOMAIN byRoom[room].sessions :
                 LET one == get_e2e_room_keys(DB, u, v, Some(room), Some(sid)).ret.rooms
                 IN /\ DOMAIN one = {room}
                    /\ DOMAIN one[room].sessions = {sid}
                    /\ one[room].sessions[sid] = byRoom[room].sessions[sid]

\* a room that holds two sessions of one backup
C10_Witness ==
  \E k \in DOMAIN keys, m \in DOMAIN keys :
    /\ k.user_id = m.user_id /\ k.version = m.version
    /\ k.room_id = m.room_id /\ k.session_id # m.session_id
    /\ Cardinality(DOMAIN get_e2e_room_keys(DB, k.user_id, IntToStr(k.version),
                                            Some(k.room_id), None)
                            .ret.rooms[k.room_id].sessions) = 2

\* C11: deleteKeys(U, V, room?, session?) removes exactly the key rows of (U, V) that
\* match the filter (all of them when no room is given), keeps every other key row
\* with its count, and leaves the version table as it is
C11_DeleteKeysFrame ==
  \A u \in Users, v \in IntVersionArgs, room \in OptRooms, sid \in OptSessions :
    LET res == delete_e2e_room_keys(DB, u, v, room, sid)
        hit(r) == /\ r.user_id = u
                  /\ ParseInt(v) = Some(r.version)
                  /\ room # None =>
                       /\ r.room_id = room[1]
                       /\ sid # None => r.session_id = sid[1]
    IN /\ res.status = "ok"
       /\ res.db.versions = versions
       /\ DOMAIN res.db.keys = {r \in DOMAIN keys : ~hit(r)}
       /\ \A r \in DOMAIN res.db.keys : res.db.keys[r] = keys[r]
       /\ room = None =>
            ~\E r \in DOMAIN res.db.keys : r.user_id = u /\ ParseInt(v) = Some(r.version)

\* two users hold the same (version, room, session); deleting the one user's key with
\* the full filter leaves the other user's row alone in the table
C11_Witness ==
  \E k \in DOMAIN keys, m \in DOMAIN keys :
    /\ k.user_id # m.user_id /\ k.version = m.version
    /\ k.room_id = m.room_id /\ k.session_id = m.session_id
    /\ DOMAIN delete_e2e_room_keys(DB, k.user_id, IntToStr(k.version),
                                   Some(k.room_id), Some(k.session_id)).db.keys = {m}

RECURSIVE SessionEntries(_)
\* the number of session entries of a rooms mapping returned by getKeys
SessionEntries(rooms) ==
  IF DOMAIN rooms = {} THEN 0
  ELSE LET room == CHOOSE x \in DOMAIN rooms : TRUE IN
       Cardinality(DOMAIN rooms[room].sessions)
         + SessionEntries([x \in DOMAIN rooms \ {room} |-> rooms[x]])

\* C12: countKeys(U, V) is the number of key rows stored under (U, V), which is the
\* number of session entries getKeys(U, V) returns; a bulkAddKeys of n entries into an
\* empty (U, V) that succeeds makes it n
C12_CountIsStoredRows ==
  \A u \in Users, v \in IntVersionArgs :
    LET res == count_e2e_room_keys(DB, u, v)
        stored == {r \in DOMAIN keys : r.user_id = u /\ ParseInt(v) = Some(r.version)}
    IN /\ res.status = "ok"
       /\ \A r \in stored : keys[r] = 1
       /\ res.ret = Cardinality(stored)
       /\ res.ret = SessionEntries(get_e2e_room_keys(DB, u, v, None, None).ret.rooms)
       /\ stored = {} =>
            \A batch \in Batches :
              LET added == add_e2e_room_keys(DB, u, v, batch) IN
              added.status = "ok" =>
                count_e2e_room_keys(added.db, u, v).ret = Len(batch)

\* one backup holds keys of two rooms, and the count is 2
C12_Witness ==
  \E k \in DOMAIN keys, m \in DOMAIN keys :
    /\ k.user_id = m.user_id /\ k.version = m.version /\ k.room_id # m.room_id
    /\ count_e2e_room_keys(DB, k.user_id, IntToStr(k.version)).ret = 2

\* C13: bulkAddKeys is all-or-nothing: a batch with an entry whose (user, version,
\* room, session) is already stored, or occurs twice in the batch, fails with the
\* engine's conflict error and stores nothing; any other batch stores every entry; and
\* no two stored key rows share (user, version, room, session)
C13_BulkAddAllOrNothing ==
  /\ \A r \in DOMAIN keys :
       /\ keys[r] = 1
       /\ \A q \in DOMAIN keys :
            (/\ q.user_id = r.user_id /\ q.version = r.version
             /\ q.room_id = r.room_id /\ q.session_id = r.session_id) => q = r
  /\ \A u \in Users, v \in IntVersionArgs, batch \in Batches :
       LET res == add_e2e_room_keys(DB, u, v, batch)
           taken(i) == \E q \in DOMAIN keys :
                         /\ q.user_id = u /\ ParseInt(v) = Some(q.version)
                         /\ q.room_id = batch[i][1] /\ q.session_id = batch[i][2]
           twice == \E i, j \in 1..Len(batch) :
                      i # j /\ batch[i][1] = batch[j][1] /\ batch[i][2] = batch[j][2]
       IN /\ res.db.versions = versions
          /\ IF twice \/ \E i \in 1..Len(batch) : taken(i)
             THEN res.status = "IntegrityError" /\ res.db.keys = keys
             ELSE /\ res.status = "ok"
                  /\ BagCardinality(res.db.keys) = BagCardinality(keys) + Len(batch)
                  /\ \A q \in DOMAIN keys : BagIn(q, res.db.keys)
                  /\ \A i \in 1..Len(batch) :
                       \E q \in DOMAIN res.db.keys :
                         /\ q.user_id = u /\ ParseInt(v) = Some(q.version)
                         /\ q.room_id = batch[i][1] /\ q.session_id = batch[i][2]
                         /\ row_key(q) = batch[i][3]

\* a batch of two entries whose first entry is new and whose second is already
\* stored: the call fails and the first entry is not stored either
C13_Witness ==
  \E k \in DOMAIN keys, batch \in Batches :
    /\ Len(batch) = 2
    /\ ~(batch[1][1] = k.room_id /\ batch[1][2] = k.session_id)
    /\ batch[2][1] = k.room_id /\ batch[2][2] = k.session_id
    /\ LET res == add_e2e_room_keys(DB, k.user_id, IntToStr(k.version), batch) IN
       res.status = "IntegrityError" /\ res.db.keys = keys

\* C14: updateKey succeeds only when exactly one stored row has the given (user,
\* version, room, session); it then replaces that row's first_message_index,
\* forwarded_count, is_verified and session_data and changes no other row; when no
\* row matches it fails and the key table is as before
C14_UpdateKeyUpdatesOne ==
  \A u \in Users, v \in IntVersionArgs, room \in Rooms, sid \in Sessions,
     rk \in RoomKeyArgs :
    LET res == update_e2e_room_key(DB, u, v, room, sid, rk)
        match == {r \in DOMAIN keys :
                    /\ r.user_id = u /\ ParseInt(v) = Some(r.version)
                    /\ r.room_id = room /\ r.session_id = sid}
    IN /\ res.db.versions = versions
       /\ res.status = "ok" <=> (Cardinality(match) = 1 /\ \A r \in match : keys[r] = 1)
       /\ match = {} => res.status = "404" /\ res.db.keys = keys
       /\ res.status = "ok" =>
            /\ BagCardinality(res.db.keys) = BagCardinality(keys)
            /\ \A q \in DOMAIN keys \ match : BagIn(q, res.db.keys)
            /\ \E q \in DOMAIN res.db.keys :
                 /\ q.user_id = u /\ ParseInt(v) = Some(q.version)
                 /\ q.room_id = room /\ q.session_id = sid
                 /\ row_key(q) = rk

\* a stored key whose data a keyed update has replaced, next to a key of the same
\* room that it has left alone
C14_Witness ==
  \E k \in DOMAIN keys, m \in DOMAIN keys :
    /\ k.user_id = m.user_id /\ k.version = m.version
    /\ k.room_id = m.room_id /\ k.session_id # m.session_id
    /\ row_key(k) # BatchKey /\ row_key(m) = BatchKey

\* version identifiers that int() rejects
NonIntVersionArgs == {<<"x">>, <<"1", "x">>, <<>>}

\* C15: for a version identifier that is not an integer, getKeys returns the result
\* with no rooms, without failing, under every room and session filter, while
\* getVersionInfo with that version fails with 404; neither changes the database
C15_NonIntVersionReaders ==
  \A u \in Users, v \in NonIntVersionArgs :
    /\ ParseInt(v) = None
    /\ \A room \in OptRooms, sid \in OptSessions :
         LET got == get_e2e_room_keys(DB, u, v, room, sid) IN
         got.status = "ok" /\ DOMAIN got.ret.rooms = {} /\ got.db = DB
    /\ LET info == get_e2e_room_keys_version_info(DB, u, Some(v)) IN
       info.status = "404" /\ info.ret = None /\ info.db = DB

\* a user with a current version and a key stored under it: both readers answer for
\* the version's number and for no version given, but not for a non-integer version
C15_Witness ==
  \E k \in DOMAIN keys :
    /\ get_e2e_room_keys_version_info(DB, k.user_id, None).status = "ok"
    /\ get_e2e_room_keys_version_info(DB, k.user_id, Some(IntToStr(k.version))).status
         = "ok"
    /\ DOMAIN get_e2e_room_keys(DB, k.user_id, IntToStr(k.version), None, None).ret.rooms
         # {}
    /\ DOMAIN get_e2e_room_keys(DB, k.user_id, <<"x">>, None, None).ret.rooms = {}
    /\ get_e2e_room_keys_version_info(DB, k.user_id, Some(<<"x">>)).status = "404"

\* C16: deleteKeys with a version identifier that is not an integer fails, where
\* getKeys returns normally, and removes no key row, whatever the room and session
C16_DeleteKeysNonIntFails ==
  \A u \in Users, v \in NonIntVersionArgs, room \in OptRooms, sid \in OptSessions :
    LET res == delete_e2e_room_keys(DB, u, v, room, sid) IN
    /\ res.status = "ValueError"
    /\ res.db = DB
    /\ get_e2e_room_keys(DB, u, v, room, sid).status = "ok"

\* a user with two stored keys: the delete with a non-integer version fails and both
\* keys stay, the delete with the keys' version would remove them
C16_Witness ==
  \E k \in DOMAIN keys, m \in DOMAIN keys :
    /\ k # m /\ k.user_id = m.user_id /\ k.version = m.version
    /\ delete_e2e_room_keys(DB, k.user_id, <<"x">>, None, None).status = "ValueError"
    /\ delete_e2e_room_keys(DB, k.user_id, <<"x">>, None, None).db.keys = keys
    /\ delete_e2e_room_keys(DB, k.user_id, IntToStr(k.version), None, None).db.keys
         = EmptyBag

\* C17: deleteVersion fails with 404 and leaves every row as it is when the named
\* (user, version) has no row, and when no version is given and the user has no
\* non-deleted version; otherwise it succeeds and sets deleted on exactly one row, the
\* named one or the current one, and on nothing else
C17_DeleteVersionOutcome ==
  \A u \in Users, v \in OptIntVersionArgs :
    LET res == delete_e2e_room_keys_version(DB, u, v)
        target == IF v = None
                  THEN {r \in LiveRows(u) : \A q \in LiveRows(u) : q.version <= r.version}
                  ELSE {r \in UserRows(u) : ParseInt(v[1]) = Some(r.version)}
    IN /\ res.db.keys = keys
       /\ target = {} => res.status = "404" /\ res.db = DB
       /\ target # {} =>
            /\ res.status = "ok"
            /\ Cardinality(target) = 1
            /\ \A r \in target :
                 res.db.versions
                   = (versions (-) SetToBag({r})) (+) SetToBag({[r EXCEPT !.deleted = TRUE]})

\* a user whose versions are all soft-deleted: the delete without a version and the
\* delete of a number never created fail, the delete of an existing number succeeds
C17_Witness ==
  \E u \in Users : \E r \in UserRows(u) :
    /\ LiveRows(u) = {}
    /\ delete_e2e_room_keys_version(DB, u, None).status = "404"
    /\ delete_e2e_room_keys_version(DB, u, Some(IntToStr(r.version + 1))).status = "404"
    /\ delete_e2e_room_keys_version(DB, u, Some(IntToStr(r.version))).status = "ok"

\* C18 as stated: with can_only_create_one_to_one_rooms enabled, a call of
\* user_may_create_room returns True only if the invite list holds exactly one user,
\* another one than the creator, whom user_may_invite permits the creator to invite
C18_CreateRoomChecksRules ==
  (/\ checker.last # None
   /\ checker.last[1].op = "user_may_create_room"
   /\ checker.self.can_only_create_one_to_one_rooms
   /\ checker.last[1].res.ret) =>
    LET userid == checker.last[1].args[1]
        invite_list == checker.last[1].args[2]
    IN /\ Len(invite_list) = 1
       /\ invite_list[1] # userid
       /\ user_may_invite(checker.self, userid, invite_list[1], RuleRoom, TRUE)
            = [status |-> "ok", ret |-> TRUE]

\* C19: a session given without a room is ignored: getKeys(U, V, None, S) returns what
\* getKeys(U, V) returns, and deleteKeys(U, V, None, S) does what deleteKeys(U, V)
\* does, which is to remove every key row of (U, V)
C19_SessionWithoutRoomIgnored ==
  \A u \in Users, v \in VersionArgs, sid \in Sessions :
    LET del == delete_e2e_room_keys(DB, u, v, None, Some(sid)) IN
    /\ get_e2e_room_keys(DB, u, v, None, Some(sid)) = get_e2e_room_keys(DB, u, v, None, None)
    /\ del = delete_e2e_room_keys(DB, u, v, None, None)
    /\ del.status = "ok" =>
         ~\E r \in DOMAIN del.db.keys : r.user_id = u /\ ParseInt(v) = Some(r.version)

\* a backup with two sessions: the delete with one session and no room empties the
\* table, and the get with that session and no room returns the other session too
C19_Witness ==
  \E k \in DOMAIN keys, m \in DOMAIN keys :
    /\ k.user_id = m.user_id /\ k.version = m.version /\ k.session_id # m.session_id
    /\ delete_e2e_room_keys(DB, k.user_id, IntToStr(k.version), None,
                            Some(k.session_id)).db.keys = EmptyBag
    /\ LET got == get_e2e_room_keys(DB, k.user_id, IntToStr(k.version), None,
                                    Some(k.session_id)).ret.rooms
       IN m.room_id \in DOMAIN got /\ m.session_id \in DOMAIN got[m.room_id].sessions

\* C20: the key operations neither read nor write the version table: bulkAddKeys,
\* updateKey, getKeys, countKeys and deleteKeys give, on the database as it is
\* (whether the named version is active, soft-deleted or was never created), the
\* status, result and key table they give on the same keys with no version row at
\* all, and they leave every version row as it is
C20_KeyOpsIgnoreVersions ==
  LET bare == [versions |-> EmptyBag, keys |-> keys]
      same(a, b) == /\ a.status = b.status /\ a.ret = b.ret /\ a.db.keys = b.db.keys
                    /\ a.db.versions = versions
  IN \A u \in Users, v \in IntVersionArgs :
       /\ \A batch \in Batches :
            same(add_e2e_room_keys(DB, u, v, batch), add_e2e_room_keys(bare, u, v, batch))
       /\ \A room \in Rooms, sid \in Sessions, rk \in RoomKeyArgs :
            same(update_e2e_room_key(DB, u, v, room, sid, rk),
                 update_e2e_room_key(bare, u, v, room, sid, rk))
       /\ \A room \in OptRooms, sid \in OptSessions :
            /\ same(get_e2e_room_keys(DB, u, v, room, sid),
                    get_e2e_room_keys(bare, u, v, room, sid))
            /\ same(delete_e2e_room_keys(DB, u, v, room, sid),
                    delete_e2e_room_keys(bare, u, v, room, sid))
       /\ same(count_e2e_room_keys(DB, u, v), count_e2e_room_keys(bare, u, v))

\* a key stored under a version that was never created, beside a soft-deleted version
\* under which a bulk add succeeds
C20_Witness ==
  \E k \in DOMAIN keys, r \in DOMAIN versions :
    /\ ~\E q \in UserRows(k.user_id) : q.version = k.version
    /\ r.deleted
    /\ LET res == add_e2e_room_keys(DB, r.user_id, IntToStr(r.version), <<BatchEntries[1]>>)
       IN res.status = "ok" /\ BagCardinality(res.db.keys) = BagCardinality(keys) + 1

\* C21: getVersionInfo never returns a soft-deleted version: whatever it returns is
\* the number of a non-deleted row, and for an explicit version whose row is
\* soft-deleted it fails with 404 as it does when that row is not there at all, while
\* deleteVersion and updateVersionInfo with that version find the row: the delete
\* succeeds, and the update succeeds and writes the fields it was given
C21_InfoHidesDeleted ==
  \A u \in Users :
    /\ \A v \in OptVersionArgs :
         LET got == get_e2e_room_keys_version_info(DB, u, v) IN
         got.status = "ok" =>
           \E r \in LiveRows(u) : ParseInt(got.ret[1].version) = Some(r.version)
    /\ \A v \in IntVersionArgs : \A r \in UserRows(u) :
         (ParseInt(v) = Some(r.version) /\ r.deleted) =>
           LET got == get_e2e_room_keys_version_info(DB, u, Some(v))
               absent == [versions |-> versions (-) SetToBag({r}), keys |-> keys]
               gone == get_e2e_room_keys_version_info(absent, u, Some(v))
           IN /\ got.status = "404" /\ got.ret = None
              /\ gone.status = got.status /\ gone.ret = got.ret
              /\ delete_e2e_room_keys_version(DB, u, Some(v)).status = "ok"
              /\ \A info \in Partials :
                   LET upd == update_e2e_room_keys_version(DB, u, v, info) IN
                   /\ upd.status = "ok"
                   /\ \E q \in DOMAIN upd.db.versions :
                        /\ q.user_id = u /\ q.version = r.version /\ q.deleted
                        /\ info.hash # None => q.hash = info.hash
                        /\ info.auth_data # None =>
                             q.auth_data = JsonDumps(info.auth_data[1])

\* a soft-deleted version whose hash an update can still set, beside another version
\* of the user that getVersionInfo returns as the current one
C21_Witness ==
  \E u \in Users : \E r \in UserRows(u) :
    /\ r.deleted /\ r.hash = None
    /\ get_e2e_room_keys_version_info(DB, u, Some(IntToStr(r.version))).status = "404"
    /\ get_e2e_room_keys_version_info(DB, u, None).status = "ok"
    /\ \E q \in DOMAIN update_e2e_room_keys_version(
                         DB, u, IntToStr(r.version),
                         [auth_data |-> None, hash |-> Some(1)]).db.versions :
         q.user_id = u /\ q.version = r.version /\ q.hash = Some(1)

====
